---- MODULE Spec2Model ----
(***************************************************************************)
(* QMedian (sol_qmedian.h): median-cut palette quantizer.                  *)
(*                                                                         *)
(* A linked list of struct sqi_colorstruc is a sequence of records         *)
(* [coloridx, data]; data is the 4-byte union sqi_colorchunk, kept as its  *)
(* component[0..3] bytes (tuple positions 1..4) and read or written as the *)
(* unsigned int `block` through Block / Unblock.  sq_reduce is cut into    *)
(* its phases (entry, one split-loop iteration, palette build, the         *)
(* re-sort call and its return); the recursive call of sq_reduce runs the  *)
(* same actions one stack frame deeper.                                    *)
(***************************************************************************)
EXTENDS Integers, Sequences, FiniteSets, TLC

\* ---------------------------------------------------------------- bounds
MaxColors == 4          \* colors registered in one context, in total
MaxMaps   == 2          \* sq_addcolormap calls on one context
MaxWidth  == 3          \* requested palwid

\* The (r,g,b) values the callers' color maps are drawn from.
ColorSet == { <<1,2,1>>, <<1,2,2>>, <<0,3,3>>, <<1,1,3>> }

\* bytes per color in the caller's array; the 4th byte is ignored
Strides == {3, 4}

\* ------------------------------------------------------------- helpers
Byte(x) == x % 256

MinOf(S) == CHOOSE x \in S : \A y \in S : x <= y
MaxOf(S) == CHOOSE x \in S : \A y \in S : x >= y

\* union sqi_colorchunk: the four component bytes read as one unsigned int
Block(data) == data[1] + 256 * data[2] + 65536 * data[3] + 16777216 * data[4]
\* ... and an unsigned int written over the four component bytes
Unblock(n) == << n % 256, (n \div 256) % 256, (n \div 65536) % 256,
                 (n \div 16777216) % 256 >>

\* the caller's unsigned char array for a color map of the given stride
RECURSIVE ColmapBytes(_, _)
ColmapBytes(cols, stride) ==
    IF cols = << >> THEN << >>
    ELSE LET c == Head(cols)
         IN  (IF stride = 4 THEN <<c[1], c[2], c[3], 255>> ELSE c)
             \o ColmapBytes(Tail(cols), stride)

\* ------------------------------------------------------- sq_alloc, heap
\* sqi_calloc'ed SQ: every field zero / NULL
sq_alloc == [first |-> << >>, zeromap |-> << >>, colmap |-> << >>,
             colors |-> 0, zeros |-> 0]

\* heap: block id -> number of times it has been passed to free()
Alloc(h, b) == [x \in (DOMAIN h) \cup {b} |-> IF x = b THEN 0 ELSE h[x]]
Free(h, b)  == [h EXCEPT ![b] = @ + 1]

RECURSIVE AllocAll(_, _)
AllocAll(h, bs) ==
    IF bs = << >> THEN h ELSE AllocAll(Alloc(h, Head(bs)), Tail(bs))

RECURSIVE FreeAll(_, _)
FreeAll(h, bs) ==
    IF bs = << >> THEN h ELSE FreeAll(Free(h, Head(bs)), Tail(bs))

\* ------------------------------------------------------- color registry
\* sqi_add_color numbering from the count after the increment
sqi_add_color_bad(qq, r, g, b) ==
    [qq EXCEPT !.first  = Append(@, [coloridx |-> qq.colors + 1,
                                     data |-> <<Byte(r), Byte(g), Byte(b), 0>>]),
               !.colors = @ + 1]

sqi_add_color(qq, r, g, b) ==
    [qq EXCEPT !.first  = Append(@, [coloridx |-> qq.colors,
                                     data |-> <<Byte(r), Byte(g), Byte(b), 0>>]),
               !.colors = @ + 1]

RECURSIVE AddColors(_, _, _, _, _)
AddColors(qq, colmap, a, colors, stride) ==
    IF a >= colors THEN qq
    ELSE AddColors(sqi_add_color(qq, colmap[a * stride + 1],
                                     colmap[a * stride + 2],
                                     colmap[a * stride + 3]),
                   colmap, a + 1, colors, stride)

\* returns the context after the call and the call's return value
sq_addcolormap(qq, colmap, colors, stride) ==
    [q   |-> AddColors([qq EXCEPT !.colmap = Append(@, colors)],
                       colmap, 0, colors, stride),
     ret |-> qq.colors]

\* the two blocks sq_addcolormap allocates for the k-th map of context d
ColmapBlocks(d, k) == << <<d, "colmap", k>>, <<d, "col", k>> >>

RECURSIVE sqi_free_colmaps(_, _, _, _)
sqi_free_colmaps(h, d, qq, k) ==
    IF k > Len(qq.colmap) THEN h
    ELSE sqi_free_colmaps(Free(Free(h, <<d, "col", k>>), <<d, "colmap", k>>),
                          d, qq, k + 1)

\* ------------------------------------------------------- group analyzer
RECURSIVE SumComp(_, _)
SumComp(g, c) == IF g = << >> THEN 0 ELSE Head(g).data[c + 1] + SumComp(Tail(g), c)

CompVals(g, c) == { g[k].data[c + 1] : k \in 1..Len(g) }
Spread(g, c)   == MaxOf(CompVals(g, c)) - MinOf(CompVals(g, c))

sqi_examine_group(g) ==
    LET s0 == [size |-> Spread(g, 0), component |-> 0, sum |-> SumComp(g, 0)]
        s1 == IF Spread(g, 1) > s0.size
              THEN [size |-> Spread(g, 1), component |-> 1, sum |-> SumComp(g, 1)]
              ELSE s0
    IN  IF Spread(g, 2) > s1.size
        THEN [size |-> Spread(g, 2), component |-> 2, sum |-> SumComp(g, 2)]
        ELSE s1

\* --------------------------------------------------------- bucket sorter
\* Step 1 appends each color to bucket[its component byte]; step 2 links
\* the non-NULL buckets in ascending order of the byte.
Bucket(col, component, a) ==
    LET InBucket(x) == x.data[component + 1] = a
    IN  SelectSeq(col, InBucket)

RECURSIVE Relink(_, _, _)
Relink(col, component, used) ==
    IF used = {} THEN << >>
    ELSE LET a == MinOf(used)
         IN  Bucket(col, component, a) \o Relink(col, component, used \ {a})

sqi_sort_group(col, component) == Relink(col, component, CompVals(col, component))

\* -------------------------------------------------------- median splitter
\* the while loop with count < median for count <= median
RECURSIVE CutWalk_bad(_, _, _, _, _)
CutWalk_bad(g, component, median, k, count) ==
    IF count < median
    THEN IF k + 1 > Len(g) THEN -1
         ELSE CutWalk_bad(g, component, median, k + 1,
                          count + g[k + 1].data[component + 1])
    ELSE k

\* The while loop of sqi_cut_group: k colors consumed so far (second is the
\* k-th, fore the (k-1)-th, g the (k+1)-th); -1 when g runs off the list.
RECURSIVE CutWalk(_, _, _, _, _)
CutWalk(g, component, median, k, count) ==
    IF count <= median
    THEN IF k + 1 > Len(g) THEN -1
         ELSE CutWalk(g, component, median, k + 1, count + g[k + 1].data[component + 1])
    ELSE k

\* sqi_cut_group cutting after the color that crosses the median
sqi_cut_group_incl(g, component, max) ==
    LET median == max \div 2
        k      == CutWalk(g, component, median, 0, 0)
    IN  IF k = -1 THEN [overrun |-> TRUE, first |-> g, second |-> << >>]
        ELSE IF k = 0 THEN [overrun |-> FALSE, first |-> g, second |-> << >>]
        ELSE [overrun |-> FALSE, first |-> SubSeq(g, 1, k),
              second |-> SubSeq(g, k + 1, Len(g))]

\* sqi_cut_group walking up to the whole sum instead of half of it
sqi_cut_group_nohalf(g, component, max) ==
    LET k == CutWalk(g, component, max, 0, 0)
    IN  IF k = -1 THEN [overrun |-> TRUE, first |-> g, second |-> << >>]
        ELSE IF k = 0 THEN [overrun |-> FALSE, first |-> g, second |-> << >>]
        ELSE IF k = 1
             THEN [overrun |-> FALSE, first |-> <<g[1]>>,
                   second |-> SubSeq(g, 2, Len(g))]
             ELSE [overrun |-> FALSE, first |-> SubSeq(g, 1, k - 1),
                   second |-> SubSeq(g, k, Len(g))]

\* sqi_cut_group unlinking the crossing color from both halves
sqi_cut_group_skip(g, component, max) ==
    LET median == max \div 2
        k      == CutWalk(g, component, median, 0, 0)
    IN  IF k = -1 THEN [overrun |-> TRUE, first |-> g, second |-> << >>]
        ELSE IF k = 0 THEN [overrun |-> FALSE, first |-> g, second |-> << >>]
        ELSE [overrun |-> FALSE, first |-> SubSeq(g, 1, MaxOf({1, k - 1})),
              second |-> SubSeq(g, MaxOf({2, k}) + 1, Len(g))]

\* first: what is left in the list g heads; second: the returned list
\* (<< >> is NULL); overrun: the walk dereferenced the NULL after the list
sqi_cut_group(g, component, max) ==
    LET median == max \div 2
        k      == CutWalk(g, component, median, 0, 0)
    IN  IF k = -1 THEN [overrun |-> TRUE, first |-> g, second |-> << >>]
        ELSE IF k = 0 THEN [overrun |-> FALSE, first |-> g, second |-> << >>]
        ELSE IF k = 1
             THEN [overrun |-> FALSE, first |-> <<g[1]>>,
                   second |-> SubSeq(g, 2, Len(g))]
             ELSE [overrun |-> FALSE, first |-> SubSeq(g, 1, k - 1),
                   second |-> SubSeq(g, k, Len(g))]

\* ----------------------------------------------------- duplicate collapser
\* The scan of sqi_dupenuke over the sorted list: act is the list kept so
\* far, zm the zero-list, lastidx / lastcol as in the code.
\* the scan remembering the index of the color it has just looked at,
\* duplicate or not
RECURSIVE DupeScan_chain(_, _, _, _, _, _)
DupeScan_chain(rest, act, zm, zeros, lastidx, lastcol) ==
    IF rest = << >> THEN [first |-> act, zeromap |-> zm, zeros |-> zeros]
    ELSE LET col == Head(rest)
         IN  IF Block(col.data) = lastcol
             THEN DupeScan_chain(Tail(rest), act,
                           Append(zm, [col EXCEPT !.data = Unblock(lastidx)]),
                           zeros + 1, col.coloridx, lastcol)
             ELSE DupeScan_chain(Tail(rest), Append(act, col), zm, zeros,
                           col.coloridx, Block(col.data))

RECURSIVE DupeScan(_, _, _, _, _, _)
DupeScan(rest, act, zm, zeros, lastidx, lastcol) ==
    IF rest = << >> THEN [first |-> act, zeromap |-> zm, zeros |-> zeros]
    ELSE LET col == Head(rest)
         IN  IF Block(col.data) = lastcol
             THEN DupeScan(Tail(rest), act,
                           Append(zm, [col EXCEPT !.data = Unblock(lastidx)]),
                           zeros + 1, lastidx, lastcol)
             ELSE DupeScan(Tail(rest), Append(act, col), zm, zeros,
                           col.coloridx, Block(col.data))

\* sqi_dupenuke sorting by two of the three components only
sqi_dupenuke_bad(qq) ==
    LET sorted == sqi_sort_group(sqi_sort_group(qq.first, 0), 1)
        col    == Head(sorted)
        res    == DupeScan(Tail(sorted), <<col>>, qq.zeromap, qq.zeros,
                           col.coloridx, Block(col.data))
    IN  [qq EXCEPT !.first = res.first, !.zeromap = res.zeromap, !.zeros = res.zeros]

\* called on a non-empty list only (see Enter for the empty one)
sqi_dupenuke(qq) ==
    LET sorted == sqi_sort_group(sqi_sort_group(sqi_sort_group(qq.first, 0), 1), 2)
        col    == Head(sorted)
        res    == DupeScan(Tail(sorted), <<col>>, qq.zeromap, qq.zeros,
                           col.coloridx, Block(col.data))
    IN  [qq EXCEPT !.first = res.first, !.zeromap = res.zeromap, !.zeros = res.zeros]

\* -------------------------------------------------------- reduction driver
\* the seven blocks sq_reduce allocates on entry (lines 408-414)
ReduceBlocks(d) ==
    << <<d, "pal", 0>>, <<d, "idxmap", 0>>, <<d, "group", 0>>,
       <<d, "groupsorted", 0>>, <<d, "groupcomponent", 0>>,
       <<d, "groupcomponentsize", 0>>, <<d, "groupcomponentsum", 0>> >>

\* lines 432-442 with the index counted from one
RECURSIVE FitsAssign_bad(_, _, _, _)
FitsAssign_bad(list, i, im, pl) ==
    IF list = << >> THEN [idxmap |-> im, pal |-> pl]
    ELSE LET col == Head(list)
         IN  FitsAssign_bad(Tail(list), i + 1,
                        [im EXCEPT ![col.coloridx] = Byte(i + 1)],
                        [pl EXCEPT ![i] = <<col.data[1], col.data[2], col.data[3]>>])

\* Fits path, lines 432-442: position in the sorted list is the palette index
RECURSIVE FitsAssign(_, _, _, _)
FitsAssign(list, i, im, pl) ==
    IF list = << >> THEN [idxmap |-> im, pal |-> pl]
    ELSE LET col == Head(list)
         IN  FitsAssign(Tail(list), i + 1,
                        [im EXCEPT ![col.coloridx] = Byte(i)],
                        [pl EXCEPT ![i] = <<col.data[1], col.data[2], col.data[3]>>])

\* lines 443-448 storing the representative's index, not its palette slot
RECURSIVE ResolveZeros_bad(_, _)
ResolveZeros_bad(zm, im) ==
    IF zm = << >> THEN im
    ELSE LET col == Head(zm)
         IN  ResolveZeros_bad(Tail(zm),
                          [im EXCEPT ![col.coloridx] = Byte(Block(col.data))])

\* lines 443-448 and 526-531: a duplicate takes its representative's entry
RECURSIVE ResolveZeros(_, _)
ResolveZeros(zm, im) ==
    IF zm = << >> THEN im
    ELSE LET col == Head(zm)
         IN  ResolveZeros(Tail(zm),
                          [im EXCEPT ![col.coloridx] = im[Block(col.data)]])

\* lines 466-473: the lowest-numbered group of the largest component size
RECURSIVE Largest(_, _, _, _)
Largest(size, n, ngroups, i) ==
    IF n >= ngroups THEN i
    ELSE Largest(size, n + 1, ngroups, IF size[n] > size[i] THEN n ELSE i)

\* lines 499-524: the palette entry of one group
GroupColor(g, size) ==
    LET count == Len(g)
    IN  IF size > 1
        THEN << Byte((SumComp(g, 0) + count \div 2) \div count),
                Byte((SumComp(g, 1) + count \div 2) \div count),
                Byte((SumComp(g, 2) + count \div 2) \div count) >>
        ELSE << g[1].data[1], g[1].data[2], g[1].data[3] >>

\* lines 495-525: the loop over the groups
RECURSIVE BuildLoop(_, _, _, _, _, _)
BuildLoop(grp, size, i, ngroups, im, pl) ==
    IF i >= ngroups THEN [idxmap |-> im, pal |-> pl]
    ELSE BuildLoop(grp, size, i + 1, ngroups,
                   [im EXCEPT ![grp[i][1].coloridx] = Byte(i)],
                   [pl EXCEPT ![i] = GroupColor(grp[i], size[i])])

\* ------------------------------------------------------------------ state
VARIABLES
    q,                  \* the SQ the running call works on
    pc,                 \* idle | loop | build | resort | ret | ub
    stack,              \* frames of the sq_reduce calls waiting for a callee
    palwid,             \* sq_reduce's parameter / local
    totalcolors,
    idxmap, pal,        \* *idxmap and *pal: contents
    idxblock, palblock, \* *idxmap and *pal: the blocks pointed to
    outindices,         \* *outindices of the caller's call (-1: not written)
    group, groups, groupsorted, groupcomponent, groupcomponentsize,
    groupcomponentsum,
    heap,               \* block id -> number of free() calls on it
    retval,             \* value returned by the sq_reduce that last returned
    outcome,            \* ok | crash | garbage | InvalidArgument
    \* history the statements below refer to
    maps,               \* the color maps given to sq_addcolormap, in order
    rets,               \* what each of those calls returned
    reqwid,             \* the caller's palwid
    built,              \* the caller's call: groups when the palette was built
    synth,              \* the caller's call: palette before the re-sort
    remapmap,           \* the caller's call: index map of the re-sort
    cut,                \* the last sqi_cut_group call: arguments and result
    iters               \* the running call: times the while loop body was entered

ctxvars  == <<q, palwid, totalcolors, idxmap, pal, idxblock, palblock, outindices>>
grpvars  == <<group, groups, groupsorted, groupcomponent, groupcomponentsize,
              groupcomponentsum>>
histvars == <<maps, rets, reqwid, built, synth, remapmap, cut, iters>>
vars     == <<pc, stack, ctxvars, grpvars, heap, retval, outcome, histvars>>

Depth == Len(stack)

NoCut == [g |-> << >>, component |-> 0, max |-> 0, first |-> << >>, second |-> << >>]

Init ==
    /\ q = sq_alloc
    /\ pc = "idle"
    /\ stack = << >>
    /\ palwid = 0
    /\ totalcolors = 0
    /\ idxmap = << >>
    /\ pal = << >>
    /\ idxblock = <<0, "idxmap", 0>>
    /\ palblock = <<0, "pal", 0>>
    /\ outindices = -1
    /\ group = << >>
    /\ groups = 0
    /\ groupsorted = << >>
    /\ groupcomponent = << >>
    /\ groupcomponentsize = << >>
    /\ groupcomponentsum = << >>
    /\ heap = Alloc(<< >>, <<0, "q", 0>>)
    /\ retval = 0
    /\ outcome = "ok"
    /\ maps = << >>
    /\ rets = << >>
    /\ reqwid = 0
    /\ built = << >>
    /\ synth = << >>
    /\ remapmap = << >>
    /\ cut = NoCut
    /\ iters = 0

\* ---------------------------------------------------------------- actions
\* sq_addcolormap(q, colmap, colors, stride) by the caller
AddColorMapCall(cols, stride) ==
    /\ LET r == sq_addcolormap(q, ColmapBytes(cols, stride), Len(cols), stride)
       IN  /\ q' = r.q
           /\ rets' = Append(rets, r.ret)
    /\ heap' = AllocAll(heap, ColmapBlocks(0, Len(q.colmap) + 1))
    /\ maps' = Append(maps, cols)
    /\ UNCHANGED <<pc, stack, palwid, totalcolors, idxmap, pal, idxblock, palblock,
                   outindices, grpvars, retval, outcome, reqwid, built, synth,
                   remapmap, cut, iters>>

\* the caller registers one more color map, of either stride
AddColorMap ==
    /\ pc = "idle"
    /\ Len(maps) < MaxMaps
    /\ \E n \in 0..(MaxColors - q.colors) : \E cols \in [1..n -> ColorSet] :
          \E stride \in Strides : AddColorMapCall(cols, stride)

\* calloc'ed arrays of sq_reduce
ZeroInts(n)  == [i \in 0..(n - 1) |-> 0]
ZeroPal(n)   == [i \in 0..(n - 1) |-> <<0, 0, 0>>]
NullLists(n) == [i \in 0..(n - 1) |-> << >>]

\* the group arrays as sqi_calloc leaves them
GroupsCleared(W) ==
    /\ group' = NullLists(W)
    /\ groups' = 0
    /\ groupsorted' = ZeroInts(W)
    /\ groupcomponent' = ZeroInts(W)
    /\ groupcomponentsize' = ZeroInts(W)
    /\ groupcomponentsum' = ZeroInts(W)

\* lines 416-418 on a context without colors: sqi_dupenuke calls
\* sqi_sort_group(NULL), which scans bucket[] past its end for a non-NULL
\* entry, and then reads col->coloridx of what it got
EnterEmpty(qq, W, h1) ==
    /\ pc' = "ub"
    /\ \E o \in {"crash", "garbage"} : outcome' = o
    /\ q' = qq
    /\ palwid' = W
    /\ idxmap' = ZeroInts(0)
    /\ pal' = ZeroPal(W)
    /\ heap' = h1
    /\ GroupsCleared(W)
    /\ UNCHANGED <<outindices, retval>>

\* line 420 with the duplicates forgotten
FitsWidth_bad(q1) == q1.colors

\* line 420: palwid = q->colors - q->zeros
FitsWidth(q1) == q1.colors - q1.zeros

\* lines 420-456, the colors fit: res is what the loop of lines 432-442 stored
EnterFits(q1, sorted, res, W, d, h1, oi) ==
    /\ palwid' = FitsWidth(q1)
    /\ outindices' = IF oi THEN q1.colors ELSE outindices
    /\ q' = [q1 EXCEPT !.first = sorted]
    /\ idxmap' = ResolveZeros(q1.zeromap, res.idxmap)
    /\ pal' = res.pal
    /\ heap' = Free(sqi_free_colmaps(
                       FreeAll(h1, << <<d, "group", 0>>,
                                      <<d, "groupsorted", 0>>,
                                      <<d, "groupcomponent", 0>>,
                                      <<d, "groupcomponentsize", 0>>,
                                      <<d, "groupcomponentsum", 0>> >>),
                       d, q1, 1), <<d, "q", 0>>)
    /\ GroupsCleared(W)
    /\ retval' = FitsWidth(q1)
    /\ pc' = "ret"
    /\ outcome' = outcome

\* lines 459-462: one group of all the colors kept; e is what
\* sqi_examine_group stored for it
EnterSplit(q1, e, W, h1) ==
    /\ palwid' = W
    /\ q' = q1
    /\ idxmap' = ZeroInts(q1.colors)
    /\ pal' = ZeroPal(W)
    /\ heap' = h1
    /\ groups' = 1
    /\ group' = [NullLists(W) EXCEPT ![0] = q1.first]
    /\ groupcomponent' = [ZeroInts(W) EXCEPT ![0] = e.component]
    /\ groupcomponentsize' = [ZeroInts(W) EXCEPT ![0] = e.size]
    /\ groupcomponentsum' = [ZeroInts(W) EXCEPT ![0] = e.sum]
    /\ groupsorted' = [ZeroInts(W) EXCEPT ![0] = -1]
    /\ pc' = "loop"
    /\ UNCHANGED <<outindices, retval, outcome>>

FitsSort(list) == sqi_sort_group(sqi_sort_group(sqi_sort_group(list, 0), 2), 1)

EnterSorted(q1, sorted, W, d, h1, oi) ==
    EnterFits(q1, sorted,
              FitsAssign(sorted, 0, ZeroInts(q1.colors), ZeroPal(W)), W, d, h1, oi)

\* line 418 taking the Fits path only below the width
EnterDeduped_bad(q1, W, d, h1, oi) ==
    IF q1.colors - q1.zeros < W
    THEN EnterSorted(q1, FitsSort(q1.first), W, d, h1, oi)
    ELSE EnterSplit(q1, sqi_examine_group(q1.first), W, h1)

\* line 418, q1 being the context sqi_dupenuke leaves
EnterDeduped(q1, W, d, h1, oi) ==
    IF q1.colors - q1.zeros <= W
    THEN EnterSorted(q1, FitsSort(q1.first), W, d, h1, oi)
    ELSE EnterSplit(q1, sqi_examine_group(q1.first), W, h1)

\* sq_reduce(qq, &idxmap, &pal, oi, W), lines 407-462, called at depth d with
\* the heap h; oi tells whether outindices is non-NULL
Enter(qq, W, d, h, oi) ==
    /\ totalcolors' = qq.colors
    /\ iters' = 0
    /\ idxblock' = <<d, "idxmap", 0>>
    /\ palblock' = <<d, "pal", 0>>
    /\ IF qq.colors = 0
       THEN EnterEmpty(qq, W, AllocAll(h, ReduceBlocks(d)))
       ELSE EnterDeduped(sqi_dupenuke(qq), W, d, AllocAll(h, ReduceBlocks(d)), oi)

\* the caller's sq_reduce(q, &idxmap, &pal, &outcolors, W)
Reduce ==
    /\ pc = "idle"
    /\ \E W \in 1..MaxWidth :
          /\ Enter(q, W, 0, heap, TRUE)
          /\ reqwid' = W
    /\ UNCHANGED <<stack, maps, rets, built, synth, remapmap, cut>>

\* lines 488-491: both halves analyzed and stored
SplitStore(i, c, e1, e2, gs1) ==
    /\ pc' = "loop"
    /\ group' = [group EXCEPT ![i] = c.first, ![groups] = c.second]
    /\ groupcomponent' = [groupcomponent EXCEPT
                             ![i] = e1.component, ![groups] = e2.component]
    /\ groupcomponentsize' = [groupcomponentsize EXCEPT
                             ![i] = e1.size, ![groups] = e2.size]
    /\ groupcomponentsum' = [groupcomponentsum EXCEPT
                             ![i] = e1.sum, ![groups] = e2.sum]
    /\ groupsorted' = [gs1 EXCEPT ![groups] = gs1[i]]
    /\ groups' = groups + 1
    /\ UNCHANGED outcome

\* lines 481-491, c being what sqi_cut_group did to group[i] (sorted: srt)
SplitCut(i, srt, c, gs1) ==
    /\ cut' = [g |-> srt, component |-> groupcomponent[i],
               max |-> groupcomponentsum[i], first |-> c.first, second |-> c.second]
    /\ IF c.overrun
       THEN \* g->data read through the NULL that ends the list
            /\ pc' = "ub"
            /\ \E o \in {"crash", "garbage"} : outcome' = o
            /\ group' = [group EXCEPT ![i] = srt]
            /\ groupsorted' = gs1
            /\ UNCHANGED <<groups, groupcomponent, groupcomponentsize,
                           groupcomponentsum>>
       ELSE IF c.second = << >>
       THEN \* can't cut: break
            /\ pc' = "build"
            /\ group' = [group EXCEPT ![i] = c.first]
            /\ groupsorted' = gs1
            /\ UNCHANGED <<outcome, groups, groupcomponent,
                           groupcomponentsize, groupcomponentsum>>
       ELSE SplitStore(i, c, sqi_examine_group(c.first),
                       sqi_examine_group(c.second), gs1)

SplitSorted(i, srt) ==
    SplitCut(i, srt, sqi_cut_group(srt, groupcomponent[i], groupcomponentsum[i]),
             [groupsorted EXCEPT ![i] = groupcomponent[i]])

\* lines 475-479: sort group i by its largest dimension unless it is sorted so
SplitGroup(i) ==
    SplitSorted(i, IF groupsorted[i] # groupcomponent[i]
                   THEN sqi_sort_group(group[i], groupcomponent[i])
                   ELSE group[i])

\* one iteration of the while loop, lines 463-492
SplitStep ==
    /\ pc = "loop"
    /\ groups < palwid
    /\ SplitGroup(Largest(groupcomponentsize, 0, groups, 0))
    /\ iters' = iters + 1
    /\ UNCHANGED <<stack, ctxvars, heap, retval, maps, rets, reqwid, built, synth,
                   remapmap>>

\* lines 494-541: build the palette and the index map, free the context
BuildPalette ==
    /\ \/ pc = "build"
       \/ pc = "loop" /\ groups >= palwid
    /\ LET res == BuildLoop(group, groupcomponentsize, 0, groups, idxmap, pal)
       IN  /\ idxmap' = ResolveZeros(q.zeromap, res.idxmap)
           /\ pal' = res.pal
    /\ heap' = Free(sqi_free_colmaps(
                       FreeAll(heap, << <<Depth, "group", 0>>,
                                        <<Depth, "groupcomponent", 0>>,
                                        <<Depth, "groupcomponentsize", 0>>,
                                        <<Depth, "groupcomponentsum", 0>> >>),
                       Depth, q, 1), <<Depth, "q", 0>>)
    /\ outindices' = IF Depth = 0 THEN totalcolors ELSE outindices
    /\ built' = IF Depth = 0 THEN [n \in 0..(groups - 1) |-> group[n]] ELSE built
    /\ pc' = "resort"
    /\ UNCHANGED <<stack, q, palwid, totalcolors, idxblock, palblock, grpvars,
                   retval, outcome, maps, rets, reqwid, synth, remapmap, cut,
                   iters>>

\* lines 543-545: reorder = sq_alloc(); sq_addcolormap(reorder, *pal, palwid, 3);
\* and the entry of sq_reduce(reorder, &remapmap, &temppal, NULL, palwid)
ResortCall ==
    /\ pc = "resort"
    /\ LET d       == Depth + 1
           bytes   == ColmapBytes([k \in 1..palwid |-> pal[k - 1]], 3)
           reorder == sq_addcolormap(sq_alloc, bytes, palwid, 3).q
           h       == AllocAll(Alloc(heap, <<d, "q", 0>>), ColmapBlocks(d, 1))
       IN  Enter(reorder, palwid, d, h, FALSE)
    /\ stack' = <<[idxmap |-> idxmap, totalcolors |-> totalcolors,
                   idxblock |-> idxblock, palblock |-> palblock]>> \o stack
    /\ synth' = IF Depth = 0 THEN pal ELSE synth
    /\ UNCHANGED <<maps, rets, reqwid, built, remapmap, cut>>

\* lines 545-554 of the calling sq_reduce, once its callee has returned
ResortReturn ==
    /\ pc = "ret"
    /\ stack # << >>
    /\ LET f == Head(stack)
       IN  /\ palwid' = retval
           /\ palblock' = palblock
           /\ idxblock' = f.idxblock
           /\ heap' = Free(Free(heap, f.palblock), idxblock)
           /\ idxmap' = [i \in 0..(f.totalcolors - 1) |-> idxmap[f.idxmap[i]]]
           /\ totalcolors' = f.totalcolors
           /\ remapmap' = IF Depth = 1 THEN idxmap ELSE remapmap
    /\ stack' = Tail(stack)
    /\ UNCHANGED <<pc, q, pal, outindices, grpvars, retval, outcome, maps, rets,
                   reqwid, built, synth, cut, iters>>

Next ==
    \/ AddColorMap
    \/ Reduce
    \/ SplitStep
    \/ BuildPalette
    \/ ResortCall
    \/ ResortReturn

Spec == Init /\ [][Next]_vars

\* the caller's sq_reduce has returned
Done == pc = "ret" /\ stack = << >>

\* a call of sq_reduce is under way: past its entry and not yet returned to
\* the caller (the guards of SplitStep, BuildPalette, ResortCall, ResortReturn)
Running ==
    \/ pc \in {"loop", "build", "resort"}
    \/ pc = "ret" /\ stack # << >>

\* sq_reduce is one sequential call: a call under way takes its next step.
\* This is WF_vars(Running /\ Next) written out, a step of a running call
\* being enabled exactly when Running holds
FairSpec == Spec /\ ([]<>(~Running) \/ []<><<Running>>_vars)

\* ------------------------------------------- sqi_cut_group on its own
MaxGroup == 3           \* colors in a group handed to sqi_cut_group

\* list nodes for the colors cols, numbered in order
Nodes(cols) ==
    [k \in 1..Len(cols) |-> [coloridx |-> k - 1,
                             data |-> <<cols[k][1], cols[k][2], cols[k][3], 0>>]]

\* the colors of those groups: ColorSet, black, and one color that outweighs
\* the others in red
CutColors == ColorSet \cup { <<0,0,0>>, <<9,0,1>> }

\* a group of two or more colors, sorted by a component, and that
\* component's sum
CutInputs ==
    { [g |-> sqi_sort_group(Nodes(cols), c), component |-> c,
       max |-> SumComp(Nodes(cols), c), first |-> << >>, second |-> << >>] :
      cols \in UNION { [1..n -> CutColors] : n \in 2..MaxGroup }, c \in 0..2 }

InitCut ==
    /\ q = sq_alloc
    /\ pc = "cutcall"
    /\ stack = << >>
    /\ palwid = 0
    /\ totalcolors = 0
    /\ idxmap = << >>
    /\ pal = << >>
    /\ idxblock = <<0, "idxmap", 0>>
    /\ palblock = <<0, "pal", 0>>
    /\ outindices = -1
    /\ group = << >>
    /\ groups = 0
    /\ groupsorted = << >>
    /\ groupcomponent = << >>
    /\ groupcomponentsize = << >>
    /\ groupcomponentsum = << >>
    /\ heap = << >>
    /\ retval = 0
    /\ outcome = "ok"
    /\ maps = << >>
    /\ rets = << >>
    /\ reqwid = 0
    /\ built = << >>
    /\ synth = << >>
    /\ remapmap = << >>
    /\ cut \in CutInputs
    /\ iters = 0

CutStore(c) ==
    IF c.overrun
    THEN /\ pc' = "ub"
         /\ \E o \in {"crash", "garbage"} : outcome' = o
         /\ UNCHANGED cut
    ELSE /\ pc' = "cutdone"
         /\ cut' = [cut EXCEPT !.first = c.first, !.second = c.second]
         /\ UNCHANGED outcome

\* sqi_cut_group(g, component, max)
CutApply ==
    /\ pc = "cutcall"
    /\ CutStore(sqi_cut_group(cut.g, cut.component, cut.max))
    /\ UNCHANGED <<stack, ctxvars, grpvars, heap, retval, maps, rets, reqwid,
                   built, synth, remapmap, iters>>

NextCut == CutApply

SpecCut == InitCut /\ [][NextCut]_vars

\* ------------------------------------------------------------ statements
RECURSIVE Flatten(_)
Flatten(ms) == IF ms = << >> THEN << >> ELSE Head(ms) \o Flatten(Tail(ms))

\* the registered colors: Reg[i + 1] is the color of original index i
Reg == Flatten(maps)
N   == Len(Reg)
\* number of channel-distinct registered colors
D   == Cardinality({ Reg[k] : k \in 1..N })

Min2(a, b) == IF a <= b THEN a ELSE b

RECURSIVE SumLens(_, _)
SumLens(ms, k) == IF k = 0 THEN 0 ELSE Len(ms[k]) + SumLens(ms, k - 1)

\* the palette sq_reduce returned, as a set of colors
PalSet == { pal[s] : s \in 0..(retval - 1) }

\* C1 as stated: the achieved width is min(D, W)
C1_WidthIsMin == Done => retval = Min2(D, reqwid)

\* C1 amended: the achieved width is D when the colors fit; otherwise it is the
\* number of distinct colors among the W palette entries built from the groups,
\* which is at least 1 and at most W
C1_AchievedWidth ==
    Done => /\ 1 <= retval
            /\ retval <= Min2(D, reqwid)
            /\ D <= reqwid => retval = D
            /\ D > reqwid =>
                  retval = Cardinality({ synth[s] : s \in 0..(reqwid - 1) })

C1_Witness == Done /\ D > reqwid /\ retval < reqwid

\* group n, as built, holds the color of original index i or, when that one
\* was collapsed as a duplicate, the color of the same channel values
InGroup(i, n) ==
    \E k \in 1..Len(built[n]) : Reg[built[n][k].coloridx + 1] = Reg[i + 1]

\* C2: on the split path every registered color, whatever its place in its
\* group's list, maps to the (re-sorted) slot of the group that holds it or
\* its representative
C2_MembersMapped ==
    (Done /\ D > reqwid) =>
        \A i \in 0..(N - 1) :
            \E n \in DOMAIN built : InGroup(i, n) /\ idxmap[i] = remapmap[n]

\* C3: every index map entry is a palette index below the achieved width
C3_IndexRange ==
    Done => /\ DOMAIN idxmap = 0..(N - 1)
            /\ \A i \in 0..(N - 1) : 0 <= idxmap[i] /\ idxmap[i] < retval

C3_Witness == Done /\ D > reqwid /\ retval >= 2 /\ N > D

\* C4: channel-identical registered colors get the same index map entry
C4_Duplicate ==
    Done => \A i, j \in 0..(N - 1) :
               Reg[i + 1] = Reg[j + 1] => idxmap[i] = idxmap[j]

C4_Witness ==
    /\ Done
    /\ D > reqwid
    /\ Len(maps) = 2
    /\ \E a \in 1..Len(maps[1]) : \E b \in 1..Len(maps[2]) :
          /\ maps[1][a] = maps[2][b]
          /\ idxmap[a - 1] # 0

\* C5: every slot of the returned palette is some registered color's entry
C5_Coverage ==
    Done => \A s \in 0..(retval - 1) : \E i \in 0..(N - 1) : idxmap[i] = s

C5_Witness == Done /\ D > reqwid /\ retval = reqwid /\ reqwid >= 2

\* C6: with at most W distinct colors the palette is the set of registered
\* colors and every index map entry designates its own color
C6_Lossless ==
    (Done /\ D <= reqwid) =>
        /\ PalSet = { Reg[k] : k \in 1..N }
        /\ \A i \in 0..(N - 1) :
              /\ idxmap[i] \in 0..(retval - 1)
              /\ pal[idxmap[i]] = Reg[i + 1]

C6_Witness == Done /\ D <= reqwid /\ D >= 2 /\ N > D

\* C7: the k-th sq_addcolormap returns the number of colors registered before
\* it, and its colors get the consecutive original indices from there on, in
\* input order, so the indices in use are exactly 0..N-1
C7_Offsets ==
    pc = "idle" =>
        /\ Len(rets) = Len(maps)
        /\ q.colors = N
        /\ Len(q.first) = N
        /\ \A k \in 1..Len(maps) :
              /\ rets[k] = SumLens(maps, k - 1)
              /\ \A a \in 1..Len(maps[k]) :
                    /\ q.first[rets[k] + a].coloridx = rets[k] + a - 1
                    /\ q.first[rets[k] + a].data =
                          <<maps[k][a][1], maps[k][a][2], maps[k][a][3], 0>>
        /\ { q.first[k].coloridx : k \in 1..N } = 0..(N - 1)

C7_Witness ==
    pc = "idle" /\ Len(maps) = 2 /\ Len(maps[1]) >= 1 /\ Len(maps[2]) >= 2

\* C8: when sq_reduce has returned, every block but the returned index map and
\* palette has been freed exactly once, and those two not at all
C8_AllFreed ==
    Done => \A b \in DOMAIN heap :
               heap[b] = IF b \in {idxblock, palblock} THEN 0 ELSE 1

\* C9: sq_reduce on a context without colors is rejected as InvalidArgument
C9_EmptyRejected ==
    (pc # "idle" /\ N = 0) => outcome = "InvalidArgument"

\* running total of a component over the first k colors of g
RECURSIVE PrefixSum(_, _, _)
PrefixSum(g, c, k) == IF k = 0 THEN 0 ELSE g[k].data[c + 1] + PrefixSum(g, c, k - 1)
\* position of the first color at which the running total exceeds S/2
Crossing(g, c, S) ==
    MinOf({ k \in 1..Len(g) : PrefixSum(g, c, k) > S \div 2 })

\* C10 as stated: the original group keeps the colors up to and including the
\* crossing color, the new group is what follows it
C10_CutInclusive ==
    pc = "cutdone" =>
        LET k == Crossing(cut.g, cut.component, cut.max)
        IN  /\ cut.first = SubSeq(cut.g, 1, k)
            /\ cut.second = SubSeq(cut.g, k + 1, Len(cut.g))

\* C10 amended: for a sorted group of two or more colors with a positive
\* component sum, the walk ends inside the group, the crossing color is never
\* the first one, the original group keeps the colors before the crossing
\* color and the new group starts with it and runs to the end
C10_CutBefore ==
    (pc # "cutcall" /\ cut.max > 0) =>
        LET k == Crossing(cut.g, cut.component, cut.max)
        IN  /\ pc = "cutdone"
            /\ k >= 2
            /\ cut.first = SubSeq(cut.g, 1, k - 1)
            /\ cut.second = SubSeq(cut.g, k, Len(cut.g))

C10_Witness ==
    /\ pc = "cutdone"
    /\ Len(cut.g) = 3
    /\ Len(cut.first) = 2
    /\ Len(cut.second) = 1

\* ---------------------------------------------------------------- C11
\* the nodes and the original indices on a linked list
NodeSet(list) == { list[k] : k \in 1..Len(list) }

IdxSet(list) == { list[k].coloridx : k \in 1..Len(list) }

\* C11: at every boundary of the split loop and when it is left, the groups
\* group[0..groups-1] are non-empty and pairwise disjoint, no color is on a
\* group twice, their union is exactly the list sqi_dupenuke kept, every
\* color still carries its own (r,g,b), and the zero-list is as sqi_dupenuke
\* left it: no color was lost, duplicated or moved to the zero-list
C11_GroupsPartition ==
    pc \in {"loop", "build"} =>
        /\ groups >= 1
        /\ groups <= palwid
        /\ \A n \in 0..(groups - 1) :
              /\ group[n] # << >>
              /\ Cardinality(IdxSet(group[n])) = Len(group[n])
        /\ \A m, n \in 0..(groups - 1) :
              m # n => IdxSet(group[m]) \cap IdxSet(group[n]) = {}
        /\ UNION { NodeSet(group[n]) : n \in 0..(groups - 1) } = NodeSet(q.first)
        /\ SumLens([n \in 1..groups |-> group[n - 1]], groups) = q.colors - q.zeros
        /\ q.zeros = Len(q.zeromap)
        /\ IdxSet(q.first) \cap IdxSet(q.zeromap) = {}
        /\ IdxSet(q.first) \cup IdxSet(q.zeromap) = 0..(totalcolors - 1)
        /\ Depth = 0 =>
              \A n \in 0..(groups - 1) : \A k \in 1..Len(group[n]) :
                  SubSeq(group[n][k].data, 1, 3) = Reg[group[n][k].coloridx + 1]

\* the loop has sorted and cut a group of three colors into two groups, one
\* of them of two colors, with a duplicate on the zero-list
C11_Witness ==
    /\ pc = "loop"
    /\ Depth = 0
    /\ groups = 2
    /\ iters = 1
    /\ q.zeros >= 1
    /\ \E n \in 0..(groups - 1) : Len(group[n]) = 2

\* ---------------------------------------------------------------- C12
\* the colors registered in the context q holds: the caller's color maps at
\* depth 0, the synthesized palette in the inner call
CtxReg ==
    IF Depth = 0 THEN Reg
    ELSE [k \in 1..Cardinality(DOMAIN synth) |-> synth[k - 1]]

\* q is a context sqi_dupenuke has run on
AfterDupenuke ==
    \/ Depth = 0 /\ pc \in {"loop", "build", "resort"}
    \/ Depth = 0 /\ pc = "ret" /\ D <= reqwid
    \/ Depth = 1 /\ pc \in {"loop", "build", "resort", "ret"}

\* C12: after sqi_dupenuke no two colors of the active list have the same
\* (r,g,b); the active list and the zero-list together hold every registered
\* color exactly once, the active ones with their own (r,g,b), and q->zeros
\* is the zero-list's length; every color of the zero-list stores the
\* original index of a color of the active list that has the (r,g,b) the
\* duplicate was registered with and is the lowest original index of that
\* value
C12_Dupenuke ==
    AfterDupenuke =>
        /\ \A a, b \in 1..Len(q.first) :
              a # b => SubSeq(q.first[a].data, 1, 3) # SubSeq(q.first[b].data, 1, 3)
        /\ q.colors = Len(CtxReg)
        /\ Len(q.first) + Len(q.zeromap) = Len(CtxReg)
        /\ IdxSet(q.first) \cup IdxSet(q.zeromap) = 0..(Len(CtxReg) - 1)
        /\ q.zeros = Len(q.zeromap)
        /\ \A a \in 1..Len(q.first) :
              q.first[a].data = CtxReg[q.first[a].coloridx + 1] \o <<0>>
        /\ \A z \in 1..Len(q.zeromap) :
              LET rep == Block(q.zeromap[z].data)
                  val == CtxReg[q.zeromap[z].coloridx + 1]
              IN  /\ rep \in IdxSet(q.first)
                  /\ CtxReg[rep + 1] = val
                  /\ rep = MinOf({ j \in 0..(Len(CtxReg) - 1) : CtxReg[j + 1] = val })

\* a color registered three times, and not first: both later copies are on
\* the zero-list
C12_Witness ==
    /\ AfterDupenuke
    /\ Depth = 0
    /\ \E i, j, k \in 1..N :
          /\ 1 < i /\ i < j /\ j < k
          /\ Reg[i] = Reg[j] /\ Reg[j] = Reg[k]
          /\ Reg[1] # Reg[i]
    /\ q.zeros = 2

\* ---------------------------------------------------------------- C13
\* one pass through the body of the split loop: it is counted, it adds exactly
\* one group and returns to the loop head or it leaves the loop with the
\* groups it had, and the walk of sqi_cut_group ended on a color of the list
\* it was given
LoopBody ==
    (pc = "loop" /\ groups < palwid) =>
        /\ iters' = iters + 1
        /\ \/ pc' = "loop" /\ groups' = groups + 1
           \/ pc' = "build" /\ groups' = groups
        /\ cut'.g # << >>
        /\ CutWalk(cut'.g, cut'.component, cut'.max \div 2, 0, 0) \in 1..Len(cut'.g)

\* C13: with one color or more registered, sq_reduce called with any width
\* W >= 1 returns to its caller; the body of the split loop is entered at
\* most W times, each time adding exactly one group or leaving the loop, and
\* the walk of sqi_cut_group never reads past the end of the group's list
C13_Terminates ==
    /\ [](N >= 1 => pc # "ub")
    /\ [](pc \in {"loop", "build", "resort"} => iters <= palwid)
    /\ [][LoopBody]_vars
    /\ (pc # "idle" /\ N >= 1) ~> Done

\* the caller's call has returned after going through the loop body as often
\* as the width allows
C13_Witness ==
    /\ Done
    /\ N >= 1
    /\ D > reqwid
    /\ reqwid = MaxWidth
    /\ cut.second # << >>

\* ---------------------------------------------------------------- C14
\* C14: the sq_reduce call of the re-sort step is never nested deeper than
\* once, and it is always over as soon as it is entered: it was given as many
\* colors as its width, kept no more distinct ones than that, took the Fits
\* path without entering the split loop body, and returns the number of
\* distinct colors of the synthesized palette
C14_InnerFits ==
    /\ Depth <= 1
    /\ Depth = 1 =>
          LET W == Cardinality(DOMAIN synth)    \* the width the call was given
          IN  /\ pc = "ret"
              /\ iters = 0
              /\ q.colors = W
              /\ q.colors - q.zeros <= W
              /\ retval = q.colors - q.zeros
              /\ retval = Cardinality({ synth[s] : s \in DOMAIN synth })
              /\ palwid = retval

\* the inner call has returned from the Fits path with fewer colors than its
\* width: the synthesized palette had two equal entries
C14_Witness ==
    /\ Depth = 1
    /\ pc = "ret"
    /\ Cardinality(DOMAIN synth) >= 2
    /\ retval < Cardinality(DOMAIN synth)

====
